---------------------------- MODULE Spec2Model ----------------------------
(***************************************************************************)
(* A model of the update-tracker bots of akxr-bots:                        *)
(*   update-tracker/final-year/main.py      the daily reminder/recorder run *)
(*   update-tracker/final-year/backfill.py  the paginated backfill          *)
(*                                                                         *)
(* Strings the code transforms (user names, message contents) are          *)
(* sequences of one-character strings, so that lower(), upper() and        *)
(* strip_html() are computed and not assumed.  A datetime in the fixed     *)
(* zone (Asia/Kolkata, no DST) is the number of minutes since 00:00 of     *)
(* day 0 of the model's calendar.                                          *)
(***************************************************************************)
EXTENDS Integers, Sequences, FiniteSets, TLC

VARIABLES
    \* ---- the time-window calculator, on its own (SpecTime)
    t_now,          \* the instant datetime.now(tz) returns
    t_out,          \* what today_label / today_date_str / start_of_day gave
    \* ---- the world of the daily run (Spec)
    clk,            \* index into Times: the wall clock
    topic,          \* channel -> the topic's messages, oldest first
    dm_state,       \* the rows of the dm_state tab below its header
    sheets,         \* batch name -> its worksheet
    \* ---- one run of main()
    pc,             \* where the run stands
    bi,             \* index of the batch of the roster being processed
    today,          \* main's today = today_date_str()
    loc,            \* process_batch's locals
    \* ---- what the run did (history, read by the properties only)
    hist,
    \* ---- one call of backfill.py's fetch_all_zulip_messages (SpecBackfill)
    bf

vars == << t_now, t_out, clk, topic, dm_state, sheets, pc, bi, today,
           loc, hist, bf >>

timeVars == << t_now, t_out >>
runVars  == << clk, topic, dm_state, sheets, pc, bi, today, loc, hist >>

-----------------------------------------------------------------------------
(* str.lower(), str.upper()                                                *)

LowerChar(c) ==
    CASE c = "A" -> "a" [] c = "B" -> "b" [] c = "C" -> "c" [] c = "D" -> "d"
      [] c = "E" -> "e" [] c = "L" -> "l" [] c = "O" -> "o" [] c = "T" -> "t"
      [] c = "Y" -> "y" [] OTHER -> c

UpperChar(c) ==
    CASE c = "a" -> "A" [] c = "b" -> "B" [] c = "c" -> "C" [] c = "d" -> "D"
      [] c = "e" -> "E" [] c = "l" -> "L" [] c = "o" -> "O" [] c = "t" -> "T"
      [] c = "y" -> "Y" [] OTHER -> c

Lower(s) == [i \in DOMAIN s |-> LowerChar(s[i])]

Upper(s) == [i \in DOMAIN s |-> UpperChar(s[i])]

-----------------------------------------------------------------------------
(* strip_html: re.sub(r"<[^>]+>", "", text).strip()                        *)

\* The index of the ">" closing a tag opened at i, or 0: the regular
\* expression needs one or more characters other than ">" between them.
TagEnd(s, i) ==
    IF s[i] # "<" THEN 0
    ELSE LET closers == {j \in (i + 1)..Len(s) : s[j] = ">"}
         IN  IF closers = {} THEN 0
             ELSE LET j == CHOOSE k \in closers : \A m \in closers : k <= m
                  IN  IF j > i + 1 THEN j ELSE 0

RECURSIVE RemoveTags(_, _)
RemoveTags(s, i) ==
    IF i > Len(s) THEN << >>
    ELSE IF TagEnd(s, i) # 0 THEN RemoveTags(s, TagEnd(s, i) + 1)
    ELSE << s[i] >> \o RemoveTags(s, i + 1)

RECURSIVE Strip(_)
Strip(s) ==
    IF s = << >> THEN s
    ELSE IF Head(s) = " " THEN Strip(Tail(s))
    ELSE IF s[Len(s)] = " " THEN Strip(SubSeq(s, 1, Len(s) - 1))
    ELSE s

strip_html(text) == Strip(RemoveTags(text, 1))

-----------------------------------------------------------------------------
(* The calendar: datetime arithmetic and strftime                          *)

MinutesPerDay == 1440

\* Day 0 of the model is 2024-12-30, so that the days of the model cross a
\* month and a year.
EpochDate == [y |-> 2024, m |-> 12, d |-> 30]

IsLeap(y) == (y % 4 = 0 /\ y % 100 # 0) \/ y % 400 = 0

DaysInMonth(y, m) ==
    IF m = 2 THEN (IF IsLeap(y) THEN 29 ELSE 28)
    ELSE IF m \in {4, 6, 9, 11} THEN 30 ELSE 31

NextDate(dt) ==
    IF dt.d < DaysInMonth(dt.y, dt.m) THEN [dt EXCEPT !.d = dt.d + 1]
    ELSE IF dt.m < 12 THEN [y |-> dt.y, m |-> dt.m + 1, d |-> 1]
    ELSE [y |-> dt.y + 1, m |-> 1, d |-> 1]

RECURSIVE AddDays(_, _)
AddDays(dt, n) == IF n = 0 THEN dt ELSE AddDays(NextDate(dt), n - 1)

\* The calendar date of an instant (datetime.date()).
DateOf(t) == AddDays(EpochDate, t \div MinutesPerDay)

\* datetime.hour
HourOf(t) == (t % MinutesPerDay) \div 60

MonthAbbr(m) ==
    CASE m = 1 -> "Jan" [] m = 2 -> "Feb" [] m = 3 -> "Mar" [] m = 4 -> "Apr"
      [] m = 5 -> "May" [] m = 6 -> "Jun" [] m = 7 -> "Jul" [] m = 8 -> "Aug"
      [] m = 9 -> "Sep" [] m = 10 -> "Oct" [] m = 11 -> "Nov" [] OTHER -> "Dec"

\* strftime("%-d %b")
FormatLabel(t) == << DateOf(t).d, MonthAbbr(DateOf(t).m) >>

\* strftime("%Y-%m-%d")
FormatIso(t) == << DateOf(t).y, DateOf(t).m, DateOf(t).d >>

\* The hour the effective day starts at ("if now.hour < 5").
DayStartHour == 5

\* today_label() with the day starting at midnight.
today_label_Midnight(now) == FormatLabel(now)

\* today_label(): the label of "today" with the 5 AM boundary.
today_label(now) ==
    IF HourOf(now) < DayStartHour
    THEN FormatLabel(now - MinutesPerDay)
    ELSE FormatLabel(now)

\* today_date_str(): YYYY-MM-DD of "today" with the 5 AM boundary.
today_date_str(now) ==
    IF HourOf(now) < DayStartHour
    THEN FormatIso(now - MinutesPerDay)
    ELSE FormatIso(now)

\* now.replace(hour=5, minute=0, second=0, microsecond=0)
ReplaceToDayStart(now) ==
    (now \div MinutesPerDay) * MinutesPerDay + DayStartHour * 60

\* start_of_day of the fetchers, as a timestamp.
start_of_day(now) ==
    IF HourOf(now) < DayStartHour
    THEN ReplaceToDayStart(now) - MinutesPerDay
    ELSE ReplaceToDayStart(now)

-----------------------------------------------------------------------------
(* The roster, the chat users and the clock of the daily run               *)

\* roster.json: the batches, their channel and their students.  The first
\* username is written with a capital, as a roster file may.
Roster ==
    << [name     |-> "g1",
        channel  |-> "c1",
        students |-> << [username |-> << "A", "l" >>, display_name |-> << "A", "l" >>],
                        [username |-> << "b", "o" >>, display_name |-> << "B", "o" >>] >>],
       [name     |-> "g2",
        channel  |-> "c2",
        students |-> << [username |-> << "c", "y" >>, display_name |-> << "C", "y" >>] >>] >>

BatchNames == {Roster[i].name : i \in DOMAIN Roster}

Channels == {Roster[i].channel : i \in DOMAIN Roster}

\* The chat users who post: sender_email is lower case on the platform.  Al
\* of the roster posts in c1, and so does a user who is on no roster and
\* whose full name differs from Al's in case only; the others never post.
RosterPosters(ch) ==
    IF ch = "c1"
    THEN {[sender_email |-> << "a", "l" >>, sender_full_name |-> << "A", "l" >>]}
    ELSE {}

Posters(ch) ==
    IF ch = "c1"
    THEN RosterPosters(ch) \cup
         {[sender_email |-> << "e", "d" >>, sender_full_name |-> << "A", "L" >>]}
    ELSE {}

\* The raw content of the n-th message posted (n = 1, 2, ...): markup,
\* surrounding blanks, and a "<>" that is no tag.
ContentOf(n) ==
    CASE n % 4 = 1 -> << "<", "b", ">", "a", "<", "/", "b", ">" >>
      [] n % 4 = 2 -> << " ", "b", "<", "b", "r", "/", ">", " " >>
      [] n % 4 = 3 -> << "<", ">", "c" >>
      [] OTHER     -> << "d", " ", "<", "i" >>

\* The instants the wall clock passes through: day 1 at 19:05 (the DM hour),
\* day 1 at 23:30 (mentions only), day 2 at 04:10 (still the effective day 1)
\* and day 2 at 05:00 (the next effective day).
Times ==
    << 1 * MinutesPerDay + 19 * 60 + 5,
       1 * MinutesPerDay + 23 * 60 + 30,
       2 * MinutesPerDay + 4 * 60 + 10,
       2 * MinutesPerDay + 5 * 60 >>

Now == Times[clk]

\* The most messages the topics hold together in the recorder's world.
MaxMsgs == 4

\* The most messages the topics hold together in the world of the reminders.
MaxPosts == 1

\* num_before of every get_messages call (1000 in the code, scaled down so
\* that a topic can hold more than one page).
PageSize == 3

-----------------------------------------------------------------------------
(* The chat platform: get_messages                                         *)

Min(S) == CHOOSE x \in S : \A y \in S : x <= y

TotalMsgs == LET RECURSIVE Sum(_)
                 Sum(S) == IF S = {} THEN 0
                           ELSE LET c == CHOOSE x \in S : TRUE
                                IN  Len(topic[c]) + Sum(S \ {c})
             IN  Sum(Channels)

\* anchor "newest", num_before n, num_after 0: the n newest messages of the
\* topic, oldest first.
NewestPage(msgs, n) ==
    SubSeq(msgs, IF Len(msgs) > n THEN Len(msgs) - n + 1 ELSE 1, Len(msgs))

\* The response of get_messages: success with the page, or an error.
ApiResults(msgs) ==
    {[result |-> "success", messages |-> NewestPage(msgs, PageSize)],
     [result |-> "error", messages |-> << >>]}

-----------------------------------------------------------------------------
(* The fetchers of main.py                                                 *)

RECURSIVE PostedLoop(_, _, _)
PostedLoop(messages, start_timestamp, posted_users) ==
    IF messages = << >> THEN posted_users
    ELSE LET msg == Head(messages)
             username == Lower(msg.sender_email)
         IN  PostedLoop(Tail(messages), start_timestamp,
                        IF msg.timestamp >= start_timestamp /\ username # << >>
                        THEN posted_users \cup {username}
                        ELSE posted_users)

\* get_users_who_posted_today, given the response and the clock it read.
get_users_who_posted_today(result, now) ==
    IF result.result # "success" THEN {}
    ELSE PostedLoop(result.messages, start_of_day(now), {})

\* A Python dict as the sequence of its items in insertion order.
DictKeys(d) == {d[i].k : i \in DOMAIN d}

\* d[key] = value: a new key goes last, a known key keeps its place.
DictSet(d, key, value) ==
    IF key \in DictKeys(d)
    THEN [i \in DOMAIN d |-> IF d[i].k = key THEN [k |-> key, v |-> value] ELSE d[i]]
    ELSE Append(d, [k |-> key, v |-> value])

RECURSIVE UpdatesLoop(_, _, _)
UpdatesLoop(messages, start_timestamp, updates) ==
    IF messages = << >> THEN updates
    ELSE LET msg == Head(messages)
         IN  UpdatesLoop(Tail(messages), start_timestamp,
                         IF msg.timestamp >= start_timestamp
                         THEN DictSet(updates, msg.sender_full_name,
                                      strip_html(msg.content))
                         ELSE updates)

\* fetch_batch_updates, given the response and the clock it read.
fetch_batch_updates(result, now) ==
    IF result.result # "success" THEN << >>
    ELSE UpdatesLoop(result.messages, start_of_day(now), << >>)

-----------------------------------------------------------------------------
(* The batch worksheet: update_batch_sheet                                 *)

\* A worksheet: its first row, its first column and the cells below and to
\* the right of them.
DateHeader == << "D", "A", "T", "E" >>

NewSheet == [header |-> << DateHeader >>, dates |-> << DateHeader >>, cells |-> << >>]

IndexOf(seq, x) == Min({i \in DOMAIN seq : seq[i] = x})

InSeq(seq, x) == \E i \in DOMAIN seq : seq[i] = x

UpperAll(header) == [i \in DOMAIN header |-> Upper(header[i])]

\* The header after the "for user in updates" loop that adds the new users.
RECURSIVE HeaderLoop(_, _)
HeaderLoop(updates, header) ==
    IF updates = << >> THEN header
    ELSE LET user_upper == Upper(Head(updates).k)
         IN  HeaderLoop(Tail(updates),
                        IF InSeq(UpperAll(header), user_upper) THEN header
                        ELSE Append(header, user_upper))

\* The update_cell calls of update_batch_sheet, in the order it makes them:
\* the new header cells, the date cell if today has no row, one cell per item.
SheetWrites(sheet, updates, label) ==
    LET header  == HeaderLoop(updates, sheet.header)
        hwrites == [i \in 1..(Len(header) - Len(sheet.header)) |->
                       [r |-> 1, c |-> Len(sheet.header) + i,
                        v |-> header[Len(sheet.header) + i]]]
        row_idx == IF InSeq(sheet.dates, label) THEN IndexOf(sheet.dates, label)
                   ELSE Len(sheet.dates) + 1
        dwrites == IF InSeq(sheet.dates, label) THEN << >>
                   ELSE << [r |-> row_idx, c |-> 1, v |-> label] >>
        cwrites == [i \in DOMAIN updates |->
                       [r |-> row_idx,
                        c |-> IndexOf(UpperAll(header), Upper(updates[i].k)),
                        v |-> updates[i].v]]
    IN  hwrites \o dwrites \o cwrites

\* sheet.update_cell(r, c, v)
UpdateCell(sheet, w) ==
    IF w.r = 1 THEN [sheet EXCEPT !.header = Append(sheet.header, w.v)]
    ELSE IF w.c = 1 THEN [sheet EXCEPT !.dates = Append(sheet.dates, w.v)]
    ELSE [sheet EXCEPT !.cells =
             [p \in (DOMAIN sheet.cells) \cup {<< w.r, w.c >>} |->
                 IF p = << w.r, w.c >> THEN w.v ELSE sheet.cells[p]]]

RECURSIVE ApplyWrites(_, _, _)
ApplyWrites(sheet, writes, n) ==
    IF n = 0 THEN sheet
    ELSE ApplyWrites(UpdateCell(sheet, Head(writes)), Tail(writes), n - 1)

-----------------------------------------------------------------------------
(* The reminder log: the dm_state tab                                      *)

\* get_dmd_users_for_date
get_dmd_users_for_date(rows, batch, date) ==
    {Lower(rows[i].username) :
        i \in {j \in DOMAIN rows : rows[j].date = date /\ rows[j].batch = batch}}

\* The row record_dm_sent appends.
DmRow(batch, date, username, now) ==
    [date |-> date, batch |-> batch, username |-> Lower(username), timestamp |-> now]

-----------------------------------------------------------------------------
(* process_batch: the classification                                       *)

\* The test of to_mention on the username as the roster writes it.
IsToMention_NoLower(student, posted_users, already_dmd) ==
    /\ Lower(student.username) \notin posted_users
    /\ student.username \in already_dmd

\* The "elif" as an "if" of its own: the test of already_dmd without the
\* test of posted_users before it.
IsToMention_IgnoresPosted(student, posted_users, already_dmd) ==
    Lower(student.username) \in already_dmd

\* "elif username in already_dmd": already DM'd and still no update.
IsToMention(student, posted_users, already_dmd) ==
    /\ Lower(student.username) \notin posted_users
    /\ Lower(student.username) \in already_dmd

\* The test of to_dm without the test of posted_users before it.
IsToDm_IgnoresPosted(student, posted_users, already_dmd) ==
    Lower(student.username) \notin already_dmd

\* "else": the first offence of the day.
IsToDm(student, posted_users, already_dmd) ==
    /\ Lower(student.username) \notin posted_users
    /\ Lower(student.username) \notin already_dmd

\* to_mention as everyone who has not posted, reminded before or not.
ToMention_AllUnposted(students, posted_users, already_dmd) ==
    LET T(s) == Lower(s.username) \notin posted_users
    IN  SelectSeq(students, T)

ToMention(students, posted_users, already_dmd) ==
    LET T(s) == IsToMention(s, posted_users, already_dmd)
    IN  SelectSeq(students, T)

ToDm(students, posted_users, already_dmd) ==
    LET T(s) == IsToDm(s, posted_users, already_dmd)
    IN  SelectSeq(students, T)

\* The hour DMs are sent at, and the hours mentions are sent in.
DmHour == 19

MentionFirstHour == 19

MentionLastHour == 23

\* The DM window open from the DM hour on.
InDmWindow_From(current_hour) == current_hour >= DmHour

InDmWindow(current_hour) == current_hour = DmHour

InMentionWindow(current_hour) ==
    MentionFirstHour <= current_hour /\ current_hour <= MentionLastHour

-----------------------------------------------------------------------------
(* Spec: runs of main() in a world where members post and time passes     *)

NoLoc == [current_hour |-> -1, posted_users |-> {}, updates |-> << >>,
          to_dm |-> << >>, to_mention |-> << >>, di |-> 0]

NoFetch == [made |-> FALSE]

\* What the batch in progress (or the one that just ended) did: the length
\* of the reminder log when it began, the usernames whose DM was delivered,
\* the usernames of its public mention, its two fetches, and whether
\* update_batch_sheet wrote all its cells.
NoBatchHist == [base |-> 0, sent |-> {}, mentioned |-> {}, posted |-> NoFetch,
                updates |-> NoFetch, recorded |-> FALSE, label |-> << >>]

\* What the run in progress did: the length of the reminder log when it
\* began, the batches it took up, the batches that raised, and its batch.
\* And, kept from run to run where it is tracked: the first private reminder
\* that was delivered while its row never reached the reminder log (none, or
\* the one).
NoHist == [base |-> 0, visited |-> {}, failed |-> {}, b |-> NoBatchHist,
           lost |-> [tracked |-> FALSE, dms |-> {}]]

\* The history a run begins and ends with.
RunHist(h) == [NoHist EXCEPT !.lost = h.lost]

Batch == Roster[bi]

\* The history once the recorder half of the batch is over: how the fetches
\* and the sheet update went is read by no property after it.
Forget(h) == [h EXCEPT !.b.posted = NoFetch, !.b.updates = NoFetch,
                       !.b.recorded = FALSE, !.b.label = << >>]

InitWorld ==
    /\ clk = 1
    /\ topic = [c \in Channels |-> << >>]
    /\ dm_state = << >>
    /\ sheets = [b \in BatchNames |-> NewSheet]
    /\ pc = "idle"
    /\ bi = 0
    /\ today = << >>
    /\ loc = NoLoc
    /\ hist = NoHist

TimeIdle == t_now = 0 /\ t_out = [done |-> FALSE]

BackfillIdle == bf = [pc |-> "off"]

Init == InitWorld /\ TimeIdle /\ BackfillIdle

\* Time passes.
Tick ==
    /\ clk < Len(Times)
    /\ clk' = clk + 1
    /\ UNCHANGED << topic, dm_state, sheets, pc, bi, today, loc, hist >>

\* A chat user among users[ch] posts in a channel's topic, while the topics
\* hold fewer than limit messages.
Post(users, limit) ==
    /\ TotalMsgs < limit
    /\ \E ch \in Channels : \E u \in users[ch] :
          topic' = [topic EXCEPT ![ch] =
                       Append(@, [id               |-> TotalMsgs + 1,
                                  sender_email     |-> u.sender_email,
                                  sender_full_name |-> u.sender_full_name,
                                  timestamp        |-> Now,
                                  content          |-> ContentOf(TotalMsgs + 1)])]
    /\ UNCHANGED << clk, dm_state, sheets, pc, bi, today, loc, hist >>

\* A member of the roster posts, at any moment.
PostMessage == Post([ch \in Channels |-> RosterPosters(ch)], MaxPosts)

\* main(), up to the loop over the batches.
MainStart ==
    /\ pc = "idle"
    /\ today' = today_date_str(Now)
    /\ bi' = 1
    /\ pc' = "batch"
    /\ hist' = [RunHist(hist) EXCEPT !.base = Len(dm_state)]
    /\ UNCHANGED << clk, topic, dm_state, sheets, loc >>

\* main's loop without its try/except: the exception ends the run.
ExceptNext_Abort(h) ==
    /\ bi' = 0
    /\ pc' = "idle"
    /\ loc' = NoLoc
    /\ hist' = RunHist(h)

\* "except Exception" of main's loop, after the failing call left the
\* history h: the batch is given up and the loop goes on.
ExceptNext(h) ==
    /\ bi' = bi + 1
    /\ pc' = "batch"
    /\ loc' = NoLoc
    /\ hist' = [Forget(h) EXCEPT !.failed = @ \cup {bi}]

\* process_batch returns.
BatchReturn(h) ==
    /\ bi' = bi + 1
    /\ pc' = "batch"
    /\ loc' = NoLoc
    /\ hist' = h

\* The loop takes the next batch: get_or_create_batch_sheet, then the first
\* lines of process_batch, which read the hour.
BatchBegin ==
    /\ pc = "batch"
    /\ bi <= Len(Roster)
    /\ LET h == [hist EXCEPT !.visited = @ \cup {bi},
                             !.b = [NoBatchHist EXCEPT !.base = Len(dm_state)]]
       IN  \/ /\ pc' = "posted"
              /\ loc' = [NoLoc EXCEPT !.current_hour = HourOf(Now)]
              /\ hist' = h
              /\ UNCHANGED bi
           \/ ExceptNext(h)
    /\ UNCHANGED << clk, topic, dm_state, sheets, today >>

\* posted_users = get_users_who_posted_today(...)
GetPosted ==
    /\ pc = "posted"
    /\ \/ \E result \in ApiResults(topic[Batch.channel]) :
             /\ loc' = [loc EXCEPT !.posted_users =
                                       get_users_who_posted_today(result, Now)]
             /\ hist' = [hist EXCEPT !.b.posted =
                            [made |-> TRUE, result |-> result.result, now |-> Now]]
             /\ pc' = "updates"
             /\ UNCHANGED bi
       \/ ExceptNext(hist)
    /\ UNCHANGED << clk, topic, dm_state, sheets, today >>

\* updates = fetch_batch_updates(...)
FetchUpdates ==
    /\ pc = "updates"
    /\ \/ \E result \in ApiResults(topic[Batch.channel]) :
             /\ loc' = [loc EXCEPT !.updates = fetch_batch_updates(result, Now)]
             /\ hist' = [hist EXCEPT !.b.updates =
                            [made |-> TRUE, result |-> result.result, now |-> Now]]
             /\ pc' = "sheet"
             /\ UNCHANGED bi
       \/ ExceptNext(hist)
    /\ UNCHANGED << clk, topic, dm_state, sheets, today >>

\* update_batch_sheet(batch_sheet, updates, batch_name): every write may be
\* the one that raises, and the writes before it stay.
UpdateSheet ==
    /\ pc = "sheet"
    /\ IF loc.updates = << >>
       THEN /\ pc' = "classify"
            /\ UNCHANGED << sheets, bi, loc, hist >>
       ELSE LET writes == SheetWrites(sheets[Batch.name], loc.updates, today_label(Now))
            IN  \E n \in 0..Len(writes) :
                   /\ sheets' = [sheets EXCEPT ![Batch.name] = ApplyWrites(@, writes, n)]
                   /\ IF n = Len(writes)
                      THEN /\ pc' = "classify"
                           /\ hist' = [hist EXCEPT !.b.recorded = TRUE,
                                                   !.b.label = today_label(Now)]
                           /\ UNCHANGED << bi, loc >>
                      ELSE ExceptNext(hist)
    /\ UNCHANGED << clk, topic, dm_state, today >>

\* already_dmd = get_dmd_users_for_date(...), then the loop that sorts the
\* students into to_dm and to_mention.
Classify ==
    /\ pc = "classify"
    /\ \/ LET already_dmd == get_dmd_users_for_date(dm_state, Batch.name, today)
          IN  /\ loc' = [loc EXCEPT
                    !.to_dm = ToDm(Batch.students, loc.posted_users, already_dmd),
                    !.to_mention = ToMention(Batch.students, loc.posted_users, already_dmd),
                    !.di = 1]
              /\ pc' = "dm"
              /\ hist' = Forget(hist)
              /\ UNCHANGED bi
       \/ ExceptNext(hist)
    /\ UNCHANGED << clk, topic, dm_state, sheets, today >>

\* One turn of "for student in to_dm": send_dm, and record_dm_sent if it
\* returned True.  send_message may answer with an error or raise, and
\* append_row may raise.
DmSend ==
    /\ pc = "dm"
    /\ InDmWindow(loc.current_hour)
    /\ loc.di <= Len(loc.to_dm)
    /\ LET username == loc.to_dm[loc.di].username
           delivered == [hist EXCEPT !.b.sent = @ \cup {username}]
           unlogged  == [delivered EXCEPT !.lost =
                            IF @.tracked /\ @.dms = {}
                            THEN [@ EXCEPT !.dms =
                                     {[date |-> today, batch |-> Batch.name,
                                       username |-> username]}]
                            ELSE @]
       IN  \/ /\ loc' = [loc EXCEPT !.di = @ + 1]          \* the send fails
              /\ UNCHANGED << dm_state, pc, bi, hist >>
           \/ /\ loc' = [loc EXCEPT !.di = @ + 1]          \* sent and recorded
              /\ dm_state' = Append(dm_state, DmRow(Batch.name, today, username, Now))
              /\ hist' = delivered
              /\ UNCHANGED << pc, bi >>
           \/ /\ ExceptNext(unlogged)                       \* sent, append_row raises
              /\ UNCHANGED dm_state
           \/ /\ ExceptNext(hist)                           \* send_message raises
              /\ UNCHANGED dm_state
    /\ UNCHANGED << clk, topic, sheets, today >>

\* The loop over to_dm is over, or the hour is not the DM hour.
DmDone ==
    /\ pc = "dm"
    /\ ~InDmWindow(loc.current_hour) \/ loc.di > Len(loc.to_dm)
    /\ pc' = "mention"
    /\ UNCHANGED << clk, topic, dm_state, sheets, bi, today, loc, hist >>

\* The public mention, and the return of process_batch.
Mention ==
    /\ pc = "mention"
    /\ IF InMentionWindow(loc.current_hour) /\ loc.to_mention # << >>
       THEN \/ BatchReturn([hist EXCEPT !.b.mentioned =
                   {loc.to_mention[i].username : i \in DOMAIN loc.to_mention}])
            \/ BatchReturn(hist)                            \* the send fails
            \/ ExceptNext(hist)                             \* send_message raises
       ELSE BatchReturn(hist)
    /\ UNCHANGED << clk, topic, dm_state, sheets, today >>

\* The loop over the batches is over.
MainFinish ==
    /\ pc = "batch"
    /\ bi > Len(Roster)
    /\ pc' = "idle"
    /\ bi' = 0
    /\ today' = << >>
    /\ hist' = RunHist(hist)
    /\ UNCHANGED << clk, topic, dm_state, sheets, loc >>

Next ==
    /\ \/ Tick
       \/ PostMessage
       \/ MainStart
       \/ BatchBegin
       \/ GetPosted
       \/ FetchUpdates
       \/ UpdateSheet
       \/ Classify
       \/ DmSend
       \/ DmDone
       \/ Mention
       \/ MainFinish
    /\ UNCHANGED << timeVars, bf >>

Spec == Init /\ [][Next]_vars

-----------------------------------------------------------------------------
(* SpecReminders: the same runs, with the history of the reminders that    *)
(* were delivered and not logged kept from run to run.                     *)

InitReminders ==
    /\ clk = 1
    /\ topic = [c \in Channels |-> << >>]
    /\ dm_state = << >>
    /\ sheets = [b \in BatchNames |-> NewSheet]
    /\ pc = "idle"
    /\ bi = 0
    /\ today = << >>
    /\ loc = NoLoc
    /\ hist = [NoHist EXCEPT !.lost.tracked = TRUE]
    /\ TimeIdle
    /\ BackfillIdle

SpecReminders == InitReminders /\ [][Next]_vars

-----------------------------------------------------------------------------
(* SpecRecorder: the recorder half of process_batch (the two fetches and   *)
(* update_batch_sheet) on topics of several pages.  The world moves        *)
(* between the runs.                                                       *)

TickBetweenRuns == pc = "idle" /\ Tick

PostBetweenRuns == pc = "idle" /\ Post([ch \in Channels |-> Posters(ch)], MaxMsgs)

\* The rest of process_batch, which touches neither topic nor batch sheet.
RestOfBatch ==
    /\ pc = "classify"
    /\ BatchReturn(Forget(hist))
    /\ UNCHANGED << clk, topic, dm_state, sheets, today >>

NextRecorder ==
    /\ \/ TickBetweenRuns
       \/ PostBetweenRuns
       \/ MainStart
       \/ BatchBegin
       \/ GetPosted
       \/ FetchUpdates
       \/ UpdateSheet
       \/ RestOfBatch
       \/ MainFinish
    /\ UNCHANGED << timeVars, bf >>

SpecRecorder == Init /\ [][NextRecorder]_vars

-----------------------------------------------------------------------------
(* SpecTime: the time-window calculator applied to every instant           *)

\* The last day of the instants SpecTime draws (the first is day 1).
MaxDay == 3

InitTime ==
    /\ t_now \in MinutesPerDay .. ((MaxDay + 1) * MinutesPerDay - 1)
    /\ t_out = [done |-> FALSE]
    /\ InitWorld
    /\ BackfillIdle

\* today_label(), today_date_str() and a fetcher's start_of_day at t_now.
ComputeWindow ==
    /\ ~t_out.done
    /\ t_out' = [done  |-> TRUE,
                 label |-> today_label(t_now),
                 date  |-> today_date_str(t_now),
                 start |-> start_of_day(t_now)]
    /\ UNCHANGED << t_now, runVars, bf >>

NextTime == ComputeWindow

SpecTime == InitTime /\ [][NextTime]_vars

-----------------------------------------------------------------------------
(* SpecBackfill: backfill.py's fetch_all_zulip_messages on every history   *)

\* The channel backfill.py reads (CHANNEL_NAME).
BackfillChannel == "c1"

\* The most messages a history of the backfill holds.
MaxHistory == 4

\* anchor = "newest": no message id, ids start at 1.
Newest == 0

\* The histories: n messages with ids 1..n, each of any poster, the first k
\* of them posted on day 1 at 23:30 and the others on day 2 at 04:10.
HistoryOf(n, senders, k) ==
    [i \in 1..n |-> [id               |-> i,
                     sender_email     |-> senders[i].sender_email,
                     sender_full_name |-> senders[i].sender_full_name,
                     timestamp        |-> IF i <= k THEN Times[2] ELSE Times[3],
                     content          |-> ContentOf(i)]]

Histories ==
    UNION {{HistoryOf(n, senders, k) :
               senders \in [1..n -> Posters(BackfillChannel)], k \in 0..n} :
           n \in 0..MaxHistory}

\* date_label(timestamp): the calendar date of the message.
date_label(timestamp) == FormatLabel(timestamp)

\* messages[from..to] of the history, cut to the ids it has.
Block(msgs, from, to) ==
    SubSeq(msgs, IF from < 1 THEN 1 ELSE from, IF to > Len(msgs) THEN Len(msgs) ELSE to)

\* The pages get_messages may answer a request with.  For anchor "newest":
\* the newest num_before messages.  For a message id: the anchor and the
\* num_before messages before it, or num_before messages ending with the
\* anchor, or (a server that makes no progress) num_before messages from
\* the anchor on.
BackfillPages(msgs, anchor) ==
    IF anchor = Newest THEN {NewestPage(msgs, PageSize)}
    ELSE {Block(msgs, anchor - PageSize, anchor),
          Block(msgs, anchor - PageSize + 1, anchor),
          Block(msgs, anchor, anchor + PageSize - 1)}

BackfillResults(msgs, anchor) ==
    {[result |-> "success", messages |-> page] : page \in BackfillPages(msgs, anchor)}
        \cup {[result |-> "error", messages |-> << >>]}

\* The loop without "if anchor == oldest_id: break".
LoopsAgain_NoProgressCheck(anchor, oldest_id, n) == ~(n < PageSize)

\* Whether the "while True" loop goes round again after a non-empty page:
\* neither "if anchor == oldest_id: break" nor "if len(messages) < 1000: break".
LoopsAgain(anchor, oldest_id, n) == anchor # oldest_id /\ ~(n < PageSize)

\* updates_by_date[date][user] = content for every message, in the order of
\* all_messages; the dict of dicts is a function of << date, user >>.
RECURSIVE GroupLoop(_, _)
GroupLoop(all_messages, updates_by_date) ==
    IF all_messages = << >> THEN updates_by_date
    ELSE LET msg == Head(all_messages)
             key == << date_label(msg.timestamp), msg.sender_full_name >>
         IN  GroupLoop(Tail(all_messages),
                       [p \in (DOMAIN updates_by_date) \cup {key} |->
                           IF p = key THEN strip_html(msg.content)
                           ELSE updates_by_date[p]])

InitBackfill ==
    /\ clk = Len(Times)
    /\ topic \in {[c \in Channels |-> IF c = BackfillChannel THEN h ELSE << >>] :
                     h \in Histories}
    /\ dm_state = << >>
    /\ sheets = [b \in BatchNames |-> NewSheet]
    /\ pc = "idle"
    /\ bi = 0
    /\ today = << >>
    /\ loc = NoLoc
    /\ hist = NoHist
    /\ TimeIdle
    /\ bf = [pc |-> "loop", anchor |-> Newest, all_messages |-> << >>,
             updates_by_date |-> << >>, requests |-> 0, errors |-> 0,
             last |-> [result |-> "none"]]

\* One turn of the "while True" loop: a request and what follows it.
BackfillRequest ==
    /\ bf.pc = "loop"
    /\ \E result \in BackfillResults(topic[BackfillChannel], bf.anchor) :
          LET messages  == result.messages
              ids       == {messages[i].id : i \in DOMAIN messages}
              counted   == [bf EXCEPT !.requests = @ + 1]
          IN  IF result.result # "success"
              THEN bf' = [counted EXCEPT !.pc = "group", !.errors = @ + 1,
                                         !.last = [result |-> "error"]]
              ELSE IF messages = << >>
              THEN bf' = [counted EXCEPT !.pc = "group",
                                         !.last = [result |-> "empty"]]
              ELSE bf' = [counted EXCEPT
                            !.all_messages = @ \o messages,
                            !.anchor = IF bf.anchor = Min(ids) THEN @ ELSE Min(ids),
                            !.pc = IF LoopsAgain(bf.anchor, Min(ids), Len(messages))
                                   THEN "loop" ELSE "group",
                            !.last = [result |-> "page", n |-> Len(messages),
                                      oldest_id |-> Min(ids), anchor |-> bf.anchor]]
    /\ UNCHANGED << timeVars, runVars >>

\* The grouping after the loop, and the return.
BackfillGroup ==
    /\ bf.pc = "group"
    /\ bf' = [bf EXCEPT !.pc = "done",
                        !.updates_by_date = GroupLoop(bf.all_messages, << >>)]
    /\ UNCHANGED << timeVars, runVars >>

NextBackfill == BackfillRequest \/ BackfillGroup

SpecBackfill == InitBackfill /\ [][NextBackfill]_vars

\* The script runs on: each step that can be taken is taken.
SpecBackfillFair ==
    SpecBackfill /\ WF_vars(BackfillRequest) /\ WF_vars(BackfillGroup)

-----------------------------------------------------------------------------
(* The properties                                                          *)

\* The messages of a page that a participant (a sender_full_name) posted at
\* or after start, and those of them with the highest timestamp.
InWindowOf(page, name, start) ==
    {i \in DOMAIN page : page[i].sender_full_name = name /\ page[i].timestamp >= start}

LatestOf(page, name, start) ==
    {i \in InWindowOf(page, name, start) :
        \A j \in InWindowOf(page, name, start) : page[j].timestamp <= page[i].timestamp}

\* The page fetch_batch_updates was answered with (the topics stand still
\* during a run of SpecRecorder), and the window start it computed.
UpdatesPage == NewestPage(topic[Batch.channel], PageSize)

UpdatesStart == start_of_day(hist.b.updates.now)

UpdatesFetched ==
    /\ pc \in {"sheet", "classify"}
    /\ hist.b.updates.made
    /\ hist.b.updates.result = "success"

\* The first half of C1: what fetch_batch_updates maps to a participant is
\* the stripped content of a highest-timestamp message of that participant
\* in the window, and every participant of the window has an entry.
MappingLastWriteWins ==
    UpdatesFetched =>
        /\ \A i \in DOMAIN loc.updates :
              \E j \in LatestOf(UpdatesPage, loc.updates[i].k, UpdatesStart) :
                 loc.updates[i].v = strip_html(UpdatesPage[j].content)
        /\ \A j \in DOMAIN UpdatesPage :
              UpdatesPage[j].timestamp >= UpdatesStart
                  => UpdatesPage[j].sender_full_name \in DictKeys(loc.updates)

\* The messages of a page posted at or after start by the participants of
\* a column of the sheet (the full names that upper() makes equal), and
\* those of them with the highest timestamp.
InWindowOfColumn(page, name, start) ==
    {i \in DOMAIN page :
        Upper(page[i].sender_full_name) = Upper(name) /\ page[i].timestamp >= start}

LatestOfColumn(page, name, start) ==
    {i \in InWindowOfColumn(page, name, start) :
        \A j \in InWindowOfColumn(page, name, start) :
           page[j].timestamp <= page[i].timestamp}

\* The second half of C1: once update_batch_sheet has written, the cell of
\* today's row in the participant's column holds the stripped content of a
\* highest-timestamp message of the window among those of the column.
CellLastWriteWins ==
    (UpdatesFetched /\ pc = "classify" /\ hist.b.recorded) =>
        LET sheet == sheets[Batch.name]
            row   == IndexOf(sheet.dates, hist.b.label)
        IN  \A i \in DOMAIN loc.updates :
               LET col == IndexOf(UpperAll(sheet.header), Upper(loc.updates[i].k))
               IN  /\ InSeq(sheet.dates, hist.b.label)
                   /\ InSeq(UpperAll(sheet.header), Upper(loc.updates[i].k))
                   /\ << row, col >> \in DOMAIN sheet.cells
                   /\ \E j \in LatestOfColumn(UpdatesPage, loc.updates[i].k, UpdatesStart) :
                         sheet.cells[<< row, col >>] = strip_html(UpdatesPage[j].content)

\* C1: last-write-wins in the daily recorder.  For the messages returned for
\* a channel and topic, the content fetch_batch_updates maps to a
\* participant, and update_batch_sheet then writes into the participant's
\* cell of today's row, is the tag-stripped content of the participant's
\* highest-timestamp message of the window; an earlier message of the same
\* participant is never the recorded value.
C1_LastWriteWins == MappingLastWriteWins /\ CellLastWriteWins

\* C2: fetch completeness.  Every roster member with a message in the topic
\* at or after the window start is in the posted set that
\* get_users_who_posted_today returns on a successful response, and has an
\* entry in the mapping fetch_batch_updates returns, however many messages
\* the topic holds.
C2_FetchComplete ==
    /\ (pc = "updates" /\ hist.b.posted.made /\ hist.b.posted.result = "success") =>
          \A s \in DOMAIN Batch.students :
             (\E j \in DOMAIN topic[Batch.channel] :
                 /\ Lower(topic[Batch.channel][j].sender_email)
                       = Lower(Batch.students[s].username)
                 /\ topic[Batch.channel][j].timestamp
                       >= start_of_day(hist.b.posted.now))
                => Lower(Batch.students[s].username) \in loc.posted_users
    /\ (pc = "sheet" /\ UpdatesFetched) =>
          \A j \in DOMAIN topic[Batch.channel] :
             topic[Batch.channel][j].timestamp >= UpdatesStart
                => topic[Batch.channel][j].sender_full_name \in DictKeys(loc.updates)

\* C3: in every run of process_batch, a roster member whose lowercased
\* username is in the posted set is neither sent a private reminder nor
\* included in the public mention, whatever the hour and the reminder log.
C3_PostedNeverReminded ==
    [][/\ \A u \in hist'.b.sent \ hist.b.sent : Lower(u) \notin loc.posted_users
       /\ \A u \in hist'.b.mentioned \ hist.b.mentioned :
             Lower(u) \notin loc.posted_users]_vars

\* A member of the batch has posted and another one was sent a reminder.
C3_Witness ==
    /\ pc = "dm"
    /\ loc.posted_users # {}
    /\ hist.b.sent # {}

\* The students of the batch in progress with a row of the reminder log
\* that an earlier run wrote for the run's date and the batch, and who are
\* not in the posted set.
RemindedEarlier ==
    {s \in DOMAIN Batch.students :
        /\ \E i \in 1..hist.base :
              /\ dm_state[i].date = today
              /\ dm_state[i].batch = Batch.name
              /\ dm_state[i].username = Lower(Batch.students[s].username)
        /\ Lower(Batch.students[s].username) \notin loc.posted_users}

\* C4: a member with a reminder-log entry for (date, group, username) that
\* an earlier run of the same effective day wrote, and who is not in the
\* posted set, is classified to_mention and never to_dm, whatever the case
\* of the username in the roster.
C4_RemindedIsEscalated ==
    pc \in {"dm", "mention"} =>
        \A s \in RemindedEarlier :
           /\ InSeq(loc.to_mention, Batch.students[s])
           /\ ~InSeq(loc.to_dm, Batch.students[s])

\* The member whose roster username has a capital is escalated.
C4_Witness ==
    /\ pc = "dm"
    /\ \E s \in RemindedEarlier :
          /\ Batch.students[s].username # Lower(Batch.students[s].username)
          /\ InSeq(loc.to_mention, Batch.students[s])

\* C5: a run of process_batch whose hour is not the send hour sends no
\* private reminder and appends no row to the reminder log, however many
\* members are pending.
C5_NoDmOutsideHour ==
    [][(pc \notin {"idle", "batch"} /\ loc.current_hour # 19) =>
          /\ dm_state' = dm_state
          /\ hist'.b.sent = hist.b.sent]_vars

\* A batch with pending members is past its DM step at another hour.
C5_Witness ==
    /\ pc = "mention"
    /\ loc.current_hour # 19
    /\ loc.to_dm # << >>
    /\ hist.b.sent = {}

\* The rows the batch that just returned (or raised) added to the log.
AddedRows == SubSeq(dm_state, hist.b.base + 1, Len(dm_state))

\* C6: after a run of process_batch the rows added to the reminder log are
\* one row (date, group, lowercased username) per member whose reminder was
\* sent, and no other.
C6_LogMatchesSent ==
    (pc = "batch" /\ bi > 1) =>
        /\ {AddedRows[i].username : i \in DOMAIN AddedRows}
              = {Lower(u) : u \in hist.b.sent}
        /\ Len(AddedRows) = Cardinality(hist.b.sent)
        /\ \A i \in DOMAIN AddedRows :
              AddedRows[i].date = today /\ AddedRows[i].batch = Roster[bi - 1].name

\* C7: the window start is the most recent 05:00 at or before now, and the
\* date label and the ISO date key are the calendar date of that window
\* start: before 05:00 they are those of the previous calendar day.
C7_DayWindow ==
    t_out.done =>
        /\ t_out.start % MinutesPerDay = 5 * 60
        /\ t_out.start <= t_now
        /\ t_now < t_out.start + MinutesPerDay
        /\ t_out.label = FormatLabel(t_out.start)
        /\ t_out.date = FormatIso(t_out.start)
        /\ HourOf(t_now) < 5 => NextDate(DateOf(t_out.start)) = DateOf(t_now)
        /\ HourOf(t_now) >= 5 => DateOf(t_out.start) = DateOf(t_now)

\* At 03:00 of 1 January the day is 31 December.
C7_Witness ==
    /\ t_out.done
    /\ t_now = 2 * MinutesPerDay + 3 * 60
    /\ t_out.label = << 31, "Dec" >>
    /\ t_out.date = << 2024, 12, 31 >>
    /\ t_out.start = MinutesPerDay + 5 * 60

\* C8: on a non-success response every fetcher returns an empty result and
\* makes no further request: get_users_who_posted_today and
\* fetch_batch_updates, and fetch_all_zulip_messages at any page.
C8_ErrorGivesEmpty ==
    /\ (pc = "updates" /\ hist.b.posted.made /\ hist.b.posted.result = "error")
          => loc.posted_users = {}
    /\ (pc = "sheet" /\ hist.b.updates.made /\ hist.b.updates.result = "error")
          => loc.updates = << >>
    /\ (bf.pc \in {"group", "done"} /\ bf.errors > 0) => bf.last.result = "error"
    /\ (bf.pc = "done" /\ bf.errors > 0) => DOMAIN bf.updates_by_date = {}

\* C9: the pagination loop terminates on every history, and goes round
\* again only after a successful page that is not empty, not shorter than
\* the page size, and whose oldest id is not the anchor of the request.
C9_PaginationTerminates ==
    /\ <>(bf.pc = "done")
    /\ [][(bf.pc = "loop" /\ bf'.pc = "loop") =>
             /\ bf'.last.result = "page"
             /\ bf'.last.n >= PageSize
             /\ bf'.last.oldest_id # bf'.last.anchor
             /\ bf'.anchor < (IF bf.anchor = Newest
                              THEN Len(topic[BackfillChannel]) + 1 ELSE bf.anchor)]_vars

\* The loop ended on a page of exactly the page size that begins with the
\* anchor of its request.
C9_Witness ==
    /\ bf.pc = "done"
    /\ bf.requests >= 2
    /\ bf.last.result = "page"
    /\ bf.last.n = PageSize
    /\ bf.last.oldest_id = bf.last.anchor

\* C10: when a step of a batch raises, nothing more is written for that
\* batch in the run, and the run ends only after every batch of the roster
\* was taken up.
C10_GroupFaultIsolation ==
    [][/\ (pc # "idle" /\ pc' = "idle") => hist.visited = DOMAIN Roster
       /\ \A g \in hist.failed :
             /\ sheets'[Roster[g].name] = sheets[Roster[g].name]
             /\ SelectSeq(dm_state', LAMBDA r : r.batch = Roster[g].name)
                   = SelectSeq(dm_state, LAMBDA r : r.batch = Roster[g].name)]_vars

\* The first batch raised and the second one has been classified.
C10_Witness ==
    /\ pc = "dm"
    /\ bi = 2
    /\ 1 \in hist.failed

\* The states the classification of the batch in progress gave a student:
\* Posted (skipped by "continue"), Escalated (to_mention), PendingReminder
\* (to_dm).
StatesOf(student) ==
    {st \in {"Posted", "Escalated", "PendingReminder"} :
        \/ st = "Posted" /\ Lower(student.username) \in loc.posted_users
        \/ st = "Escalated" /\ InSeq(loc.to_mention, student)
        \/ st = "PendingReminder" /\ InSeq(loc.to_dm, student)}

DeliveredBefore ==
    {dm_state[i].username : i \in {j \in DOMAIN dm_state :
                                      /\ dm_state[j].date = today
                                      /\ dm_state[j].batch = Batch.name}}
      \cup {d.username : d \in {e \in hist.lost.dms :
                                   e.date = today /\ e.batch = Batch.name}}

\* C12: over the runs of one effective day, one after the other, a member is
\* sent at most one private reminder for (date, group), whatever sends and
\* appends to the reminder log fail in between: no private reminder is
\* delivered to a member to whom one was delivered before for the same date
\* and group.
C12_AtMostOneDm ==
    [][\A u \in hist'.b.sent \ hist.b.sent : Lower(u) \notin DeliveredBefore]_vars

\* Whether a run before the one in progress logged a private reminder to
\* username for the date and the batch of the run in progress: the rows the
\* log held when the run began.
LoggedByEarlierRun(username) ==
    \E i \in 1..hist.base :
       /\ dm_state[i].date = today
       /\ dm_state[i].batch = Batch.name
       /\ dm_state[i].username = Lower(username)

\* C13: a member is named in the public mention for (date, group) only if
\* a strictly earlier run sent the member a private reminder for the same
\* (date, group) and logged it; and no member is sent a private reminder
\* and named in the public mention by the same run.
C13_EscalationOrdering ==
    [][\A u \in hist'.b.mentioned \ hist.b.mentioned :
          /\ LoggedByEarlierRun(u)
          /\ u \notin hist.b.sent]_vars

\* A run has sent the public mention of a batch, at an hour after the send
\* hour of the private reminders.
C13_Witness ==
    /\ pc = "batch"
    /\ hist.b.mentioned # {}
    /\ hist.base > 0
    /\ HourOf(Now) # DmHour

\* The ids of the messages of the history that a user posted on a date.
PostedOn(date, user) ==
    {i \in DOMAIN topic[BackfillChannel] :
        /\ date_label(topic[BackfillChannel][i].timestamp) = date
        /\ topic[BackfillChannel][i].sender_full_name = user}

\* The chronologically-last one of a non-empty set of ids.
LastOf(ids) == CHOOSE i \in ids : \A j \in ids : j <= i

\* C14: whatever pages the history is split into, and with the anchor
\* message returned again on the next page, the content that
\* fetch_all_zulip_messages records for a (date label, user) pair is the
\* stripped content of the user's chronologically-last message of that date.
C14_BackfillLastWriteWins ==
    bf.pc = "done" =>
        \A key \in DOMAIN bf.updates_by_date :
           bf.updates_by_date[key] =
              strip_html(topic[BackfillChannel][LastOf(PostedOn(key[1], key[2]))].content)

\* The sheet label ("%-d %b") of the day an ISO date key names.
LabelOfKey(key) == << key[3], MonthAbbr(key[2]) >>

\* C15: for every batch of a run, the date key of the reminder log (computed
\* once in main), the window start of the posted set and of the update
\* mapping, and the date label of the sheet row (computed inside
\* update_batch_sheet) denote the same effective day, however the clock
\* advances between these steps.
C15_EffectiveDayConsistent ==
    /\ hist.b.posted.made => FormatIso(start_of_day(hist.b.posted.now)) = today
    /\ hist.b.updates.made => FormatIso(start_of_day(hist.b.updates.now)) = today
    /\ hist.b.recorded => hist.b.label = LabelOfKey(today)

=============================================================================
